---- MODULE Spec2Model ----
(***************************************************************************)
(* Model of the cleanup finalizer of the Bedrock knowledge base construct: *)
(* the Lambda handler (src/bin/app.ts, cleanup handler section) that waits *)
(* for ingestion jobs, deletes the data source, deletes the knowledge base *)
(* and polls each deletion until the remote service reports not-found.     *)
(*                                                                         *)
(* JavaScript strings are sequences of one-character strings, so that      *)
(* toLowerCase, includes and startsWith are computed, not assumed.         *)
(* One action is one step of the handler between two awaits.               *)
(***************************************************************************)
EXTENDS Integers, Sequences, FiniteSets, TLC

(* ---------------------------------------------------------------- bounds *)
\* maxMinutes of a request is a JavaScript number: k / MinutesDen minutes for
\* k in 0..MaxMinutesNum
MaxMinutesNum == 1
MinutesDen == 15
\* largest number of data source summaries in a ListDataSources response
MaxListed == 2
\* largest number of job summaries in a ListIngestionJobs response
MaxJobs == 1
\* Date.now() when the handler is entered
StartMs == 1000
\* how much later a second, racing invocation is entered
RetryDelayMs == 500
\* largest attempt number backoffDelay is applied to on its own
MaxAttempt == 8
\* Math.random() on its own ranges over the multiples of 1 / RandomDen below 1
RandomDen == 16
\* props.vectorDimension ranges over the multiples of 128 up to this many
MaxDimensionSteps == 12

(* ------------------------------------------------------ program constants *)
MsPerMinute == 60000
DefaultMaxMinutes == 15
BaseMs == 1000
MaxMs == 10000
DefaultVectorDimension == 1024
LambdaTimeoutMinutes == 15

\* the JavaScript value undefined where a string is expected: a sequence no
\* string equals, since every element of a string is a single character
Undefined == <<"undefined">>
\* the JavaScript value undefined where a number is expected (numbers are
\* <<numerator, denominator>> pairs)
UndefinedNumber == <<0, 0>>
\* the JavaScript value undefined where an array of summaries is expected
UndefinedList == <<[undefined |-> TRUE]>>

(* ------------------------------------------------------------- strings -- *)
UpperChars == <<"A","B","C","D","E","F","G","H","I","J","K","L","M",
                "N","O","P","Q","R","S","T","U","V","W","X","Y","Z">>
LowerChars == <<"a","b","c","d","e","f","g","h","i","j","k","l","m",
                "n","o","p","q","r","s","t","u","v","w","x","y","z">>

LowerChar(c) ==
  IF \E i \in 1..Len(UpperChars) : UpperChars[i] = c
  THEN LowerChars[CHOOSE i \in 1..Len(UpperChars) : UpperChars[i] = c]
  ELSE c

\* String.prototype.toLowerCase
toLowerCase(s) == [i \in 1..Len(s) |-> LowerChar(s[i])]

\* String.prototype.includes
includes(s, needle) ==
  \E k \in 0..(Len(s) - Len(needle)) :
    \A i \in 1..Len(needle) : s[k + i] = needle[i]

\* String.prototype.startsWith
startsWith(s, prefix) ==
  /\ Len(prefix) <= Len(s)
  /\ \A i \in 1..Len(prefix) : s[i] = prefix[i]

\* truthiness gone wrong: undefined and the empty string pass
TruthyAnything(v) == TRUE

\* JavaScript truthiness of a string-or-undefined value
Truthy(v) == v # Undefined /\ v # <<>>

\* a || b on string-or-undefined values
OrElse(a, b) == IF Truthy(a) THEN a ELSE b

(* -------------------------------------------------------- remote errors -- *)
StrNotFoundSpaced == <<"n","o","t"," ","f","o","u","n","d">>
StrNotFound == <<"n","o","t","f","o","u","n","d">>
StrResourceNotFound ==
  <<"r","e","s","o","u","r","c","e","n","o","t","f","o","u","n","d">>

NameResourceNotFoundException ==
  <<"R","e","s","o","u","r","c","e","N","o","t","F","o","u","n","d",
    "E","x","c","e","p","t","i","o","n">>
NameThrottlingException ==
  <<"T","h","r","o","t","t","l","i","n","g","E","x","c","e","p","t","i","o","n">>
MsgNotFound == <<"K","B","1"," ","N","o","t"," ","F","o","u","n","d">>
MsgRateExceeded == <<"R","a","t","e"," ","e","x","c","e","e","d","e","d">>
NameConflictException ==
  <<"C","o","n","f","l","i","c","t","E","x","c","e","p","t","i","o","n">>
MsgBeingDeleted == <<"b","e","i","n","g"," ","d","e","l","e","t","e","d">>

\* errors a remote call can be rejected with
ErrNotFoundMessage ==
  [kind |-> "error", name |-> NameResourceNotFoundException, message |-> MsgNotFound]
ErrNotFoundNameOnly ==
  [kind |-> "error", name |-> NameResourceNotFoundException, message |-> <<>>]
ErrThrottling ==
  [kind |-> "error", name |-> NameThrottlingException, message |-> MsgRateExceeded]

RemoteErrors == {ErrNotFoundMessage, ErrNotFoundNameOnly, ErrThrottling}

\* the rejection of a delete of a resource that is already being deleted
ErrConflict ==
  [kind |-> "error", name |-> NameConflictException, message |-> MsgBeingDeleted]

\* errors the handler itself raises
ErrRequired == [kind |-> "required"]
ErrTimeout(description) == [kind |-> "timeout", description |-> description]
NoError == [kind |-> "none"]

\* isNotFoundError: the message decides when there is one, the name otherwise
isNotFoundError(error) ==
  LET message == toLowerCase(OrElse(OrElse(error.message, error.name), <<>>))
  IN  \/ includes(message, StrNotFoundSpaced)
      \/ includes(message, StrNotFound)
      \/ includes(message, StrResourceNotFound)

(* ------------------------------------------------------- request events -- *)
KB1 == <<"K","B","1">>
DS1 == <<"D","S","1">>
DS2 == <<"D","S","2">>
DS3 == <<"D","S","3">>
PrefixDs == <<"d","s">>

\* CleanupEvent: the payloads the custom resource sends (onDelete carries
\* knowledgeBaseId, onCreate carries only noop) and hand-made variations
Events ==
  [knowledgeBaseId : {Undefined, <<>>, KB1},
   dataSourceNamePrefix : {Undefined, PrefixDs},
   maxMinutes : {<<k, MinutesDen>> : k \in 0..MaxMinutesNum} \cup {UndefinedNumber}]

\* event.maxMinutes ?? 15
maxMinutesOf(e) ==
  IF e.maxMinutes = UndefinedNumber THEN <<DefaultMaxMinutes, 1>> ELSE e.maxMinutes

\* the deadline gone wrong: the budget alone, the start time left out
deadlineWithoutNow(now, maxMinutes) ==
  (maxMinutes[1] * MsPerMinute) \div maxMinutes[2]

\* the deadline gone wrong: counted from the entry of the first invocation,
\* as a value kept outside the handler would be
deadlineOfFirstEntry(now, maxMinutes) ==
  StartMs + (maxMinutes[1] * MsPerMinute) \div maxMinutes[2]

\* nowMs() + maxMinutes * 60_000
deadlineOf(now, maxMinutes) ==
  now + (maxMinutes[1] * MsPerMinute) \div maxMinutes[2]

(* ------------------------------------------------------ remote responses -- *)
SummaryPool ==
  { [dataSourceId |-> DS1, name |-> <<"d","s","-","a">>],
    [dataSourceId |-> DS2, name |-> <<"d","s","-","b">>],
    [dataSourceId |-> DS3, name |-> <<"x">>] }

\* dataSourceSummaries of a ListDataSources response: distinct data sources
Listings ==
  UNION { { l \in [1..n -> SummaryPool] :
              \A i, j \in 1..n : i # j => l[i] # l[j] } : n \in 0..MaxListed }

ListDataSourcesResponses ==
  [kind : {"ok"}, dataSourceSummaries : Listings \cup {UndefinedList}]
    \cup RemoteErrors

JobStatuses == {"IN_PROGRESS", "COMPLETE", "STARTING"}

JobListings ==
  UNION { [1..n -> [status : JobStatuses]] : n \in 0..MaxJobs }

ListIngestionJobsResponses ==
  [kind : {"ok"}, ingestionJobSummaries : JobListings \cup {UndefinedList}]
    \cup RemoteErrors

\* a get or a delete answers with an empty success or is rejected
PlainResponses == {[kind |-> "ok"]} \cup RemoteErrors

\* time a remote call takes
CallLatencyMs == {0, 4000}
\* time a remote call takes when the service is slow; the invocations that
\* run with the default maxMinutes are followed against the slow service
SlowCallLatencyMs == {225000, 450000}
LatenciesOf(e) ==
  IF e.maxMinutes = UndefinedNumber THEN SlowCallLatencyMs ELSE CallLatencyMs
\* the two racing invocations are followed against a service that answers
\* at once
RaceCallLatencyMs == {0}
\* the finalizer of a stack is followed against a service that takes its time
StackCallLatencyMs == {100000}
\* values of Math.random(), as <<numerator, denominator>>
RandomChoices == {<<0, 1>>, <<1, 2>>}

(* -------------------------------------------------------- pure functions -- *)
Min(a, b) == IF a <= b THEN a ELSE b

\* backoffDelay gone wrong: no delay at all
backoffDelayZero(attempt, rnd) == 0

\* backoffDelay gone wrong: the ceiling is not applied
backoffDelayUncapped(attempt, rnd) ==
  LET exp == BaseMs * (2 ^ attempt)
  IN  (exp * (rnd[2] + rnd[1])) \div (2 * rnd[2])

\* backoffDelay(attempt) with Math.random() = rnd[1] / rnd[2]:
\* floor(min(maxMs, baseMs * 2^attempt) * (0.5 + random * 0.5))
backoffDelay(attempt, rnd) ==
  LET exp == Min(MaxMs, BaseMs * (2 ^ attempt))
  IN  (exp * (rnd[2] + rnd[1])) \div (2 * rnd[2])

\* resolveDataSourceId gone wrong: the first match is taken when several match
resolveFirstOfSeveral(summaries, namePrefix) ==
  LET dataSources == IF summaries = UndefinedList THEN <<>> ELSE summaries
      Matches(ds) == ds.name # Undefined /\ startsWith(ds.name, namePrefix)
      matching == IF Truthy(namePrefix)
                  THEN SelectSeq(dataSources, Matches)
                  ELSE dataSources
  IN  IF Len(matching) >= 1 THEN matching[1].dataSourceId ELSE Undefined

\* resolveDataSourceId gone wrong: the name prefix is not applied
resolveIgnoringPrefix(summaries, namePrefix) ==
  LET dataSources == IF summaries = UndefinedList THEN <<>> ELSE summaries
  IN  IF Len(dataSources) = 1 THEN dataSources[1].dataSourceId ELSE Undefined

\* resolveDataSourceId gone wrong: the id is read from the unfiltered listing
resolveFirstListed(summaries, namePrefix) ==
  LET dataSources == IF summaries = UndefinedList THEN <<>> ELSE summaries
      Matches(ds) == ds.name # Undefined /\ startsWith(ds.name, namePrefix)
      matching == IF Truthy(namePrefix)
                  THEN SelectSeq(dataSources, Matches)
                  ELSE dataSources
  IN  IF Len(matching) = 1 THEN dataSources[1].dataSourceId ELSE Undefined

\* the part of resolveDataSourceId after a successful ListDataSources
resolveFromListing(summaries, namePrefix) ==
  LET dataSources == IF summaries = UndefinedList THEN <<>> ELSE summaries
      Matches(ds) == ds.name # Undefined /\ startsWith(ds.name, namePrefix)
      matching == IF Truthy(namePrefix)
                  THEN SelectSeq(dataSources, Matches)
                  ELSE dataSources
  IN  IF Len(matching) = 1 THEN matching[1].dataSourceId ELSE Undefined

\* hasActiveJobs of the ingestion-job wait
hasActiveJobs(jobs) ==
  LET summaries == IF jobs.ingestionJobSummaries = UndefinedList
                   THEN <<>> ELSE jobs.ingestionJobSummaries
  IN  \E i \in 1..Len(summaries) : summaries[i].status = "IN_PROGRESS"

(* ------------------------------------------------------------------ state -- *)
VARIABLES
  event,         \* the CleanupEvent the handler was invoked with
  clock,         \* Date.now()
  pc,            \* where the handler is suspended or ended
  deadlineMs,    \* handler: const deadlineMs
  dataSourceId,  \* handler: const dataSourceId
  description,   \* waitUntil: which wait is running
  attempt,       \* waitUntil: let attempt
  delayMs,       \* waitUntil: const delayMs of the sleep in progress
  result,        \* what the invocation gave its caller
  caught,        \* the error the handler's outer catch logged
  calls,         \* remote calls issued so far, in order
  listed,        \* dataSourceSummaries of the ListDataSources response
  lastResp,      \* response to the latest remote call
  sleeps,        \* sleeps started so far, per wait
  jobsActive,    \* ListIngestionJobs responses that had an IN_PROGRESS job
  jobsRejected,  \* ListIngestionJobs calls that were rejected
  firstJobs,     \* how the first ListIngestionJobs call was answered
  goneSeen,      \* get operations that were answered with a not-found error
  onlyNotFound,  \* every remote call so far was answered with a not-found error
  other,         \* the locals of a second invocation of the handler, while
                 \* it is not the one taking a step
  remote,        \* the knowledge base and its data source at the service
  stack          \* the CloudFormation stack of the construct: what has been
                 \* created and deleted, and the calls that did it

vars == <<event, clock, pc, deadlineMs, dataSourceId, description, attempt,
          delayMs, result, caught, calls, listed, lastResp, sleeps,
          jobsActive, jobsRejected, firstJobs, goneSeen, onlyNotFound,
          other, remote, stack>>

\* the variables that only record how the polls were answered
pollHistory == <<jobsActive, jobsRejected, firstJobs, goneSeen>>

WaitJobs == "ingestion jobs to complete"
WaitDataSource == "data source deletion"
WaitKnowledgeBase == "knowledge base deletion"
NoWait == "none"
Waits == {WaitJobs, WaitDataSource, WaitKnowledgeBase}

Pending == [state |-> "pending"]
ReturnedOk == [state |-> "returned", ok |-> TRUE]
Thrown(error) == [state |-> "thrown", error |-> error]
NoResponse == [kind |-> "none"]
\* listed before ListDataSources has answered successfully
NotListed == <<[notListed |-> TRUE]>>

Call(op, id, done) == [op |-> op, id |-> id, done |-> done]

(* ----------------------------------------------------- the remote service -- *)
\* the service answers as it pleases: every answer a call can get is possible
FreeRemote == [mode |-> "any"]
\* the service keeps one knowledge base with one data source, each present,
\* being deleted or gone, and the status of the data source's ingestion job
TrackedRemote(kb, ds, job) ==
  [mode |-> "tracked", kb |-> kb, ds |-> ds, job |-> job,
   index |-> "present", bucket |-> "present"]

OkAnswer == [kind |-> "ok"]

\* what the tracked service answers to a call
TrackedAnswers(op) ==
  CASE op = "ListDataSources" ->
         IF remote.kb = "gone" THEN {ErrNotFoundMessage}
         ELSE {[kind |-> "ok",
                dataSourceSummaries |->
                  IF remote.ds = "gone" THEN <<>>
                  ELSE <<[dataSourceId |-> DS1, name |-> <<"d","s","-","a">>]>>]}
    [] op = "ListIngestionJobs" ->
         IF remote.kb = "gone" \/ remote.ds = "gone" THEN {ErrNotFoundMessage}
         ELSE {[kind |-> "ok", ingestionJobSummaries |-> <<[status |-> remote.job]>>]}
    [] op = "DeleteDataSource" ->
         CASE remote.kb = "gone" \/ remote.ds = "gone" -> {ErrNotFoundMessage}
           [] remote.kb # "gone" /\ remote.ds = "deleting" -> {OkAnswer, ErrConflict}
           [] OTHER -> {OkAnswer}
    [] op = "GetDataSource" ->
         IF remote.kb = "gone" \/ remote.ds = "gone" THEN {ErrNotFoundMessage}
         ELSE {OkAnswer}
    [] op = "DeleteKnowledgeBase" ->
         CASE remote.kb = "gone" -> {ErrNotFoundMessage}
           [] remote.kb = "deleting" -> {OkAnswer, ErrConflict}
           [] OTHER -> {OkAnswer}
    [] op = "GetKnowledgeBase" ->
         IF remote.kb = "gone" THEN {ErrNotFoundMessage} ELSE {OkAnswer}

\* the service answers from a script: the n-th call of an invocation gets the
\* n-th answer, which the first invocation to make an n-th call has drawn;
\* two invocations then meet the same behaviour of the service
ScriptRemote == [mode |-> "script", answers |-> <<>>]

\* the answers the script is drawn from: listings of no, one and two matching
\* data sources, a job in progress and a job completed, a plain success, a
\* not-found and a throttling error
ScriptPool ==
  { [kind |-> "ok", dataSourceSummaries |-> <<>>],
    [kind |-> "ok",
     dataSourceSummaries |-> <<[dataSourceId |-> DS1, name |-> <<"d","s","-","a">>]>>],
    [kind |-> "ok",
     dataSourceSummaries |-> <<[dataSourceId |-> DS1, name |-> <<"d","s","-","a">>],
                               [dataSourceId |-> DS2, name |-> <<"d","s","-","b">>]>>],
    [kind |-> "ok", ingestionJobSummaries |-> <<[status |-> "IN_PROGRESS"]>>],
    [kind |-> "ok", ingestionJobSummaries |-> <<[status |-> "COMPLETE"]>>],
    [kind |-> "ok"],
    ErrNotFoundMessage,
    ErrThrottling }

ScriptAnswers(op, all) ==
  LET n == Len(calls) + 1
  IN  IF n <= Len(remote.answers) /\ remote.answers[n].op = op
      THEN {remote.answers[n].resp}
      ELSE all \cap ScriptPool

ScriptAfter(op, resp) ==
  IF Len(calls) + 1 > Len(remote.answers)
  THEN [remote EXCEPT !.answers = Append(@, [op |-> op, resp |-> resp])]
  ELSE remote

\* the draw of Math.random() that goes with the n-th call
ScriptRandom(n) == IF n % 2 = 1 THEN <<0, 1>> ELSE <<1, 2>>

\* the time a call to the service can take
Latencies ==
  CASE remote.mode = "any" -> LatenciesOf(event)
    [] remote.mode # "any" /\ stack.phase = "none" -> RaceCallLatencyMs
    [] OTHER -> StackCallLatencyMs

\* the values Math.random() can give; the racing invocations draw the least,
\* the scripted service goes with a fixed sequence of draws
Randoms ==
  CASE remote.mode = "any" -> RandomChoices
    [] remote.mode = "script" -> {ScriptRandom(Len(calls) + 1)}
    [] OTHER -> {<<0, 1>>}

\* the answers a call can get: any of `all` from the free service
Answers(op, all) ==
  CASE remote.mode = "any" -> all
    [] remote.mode = "script" -> ScriptAnswers(op, all)
    [] OTHER -> TrackedAnswers(op)

\* the service after it has answered a call: an accepted delete starts the
\* deletion of the resource, nothing else changes anything
RemoteAfter(op, resp) ==
  CASE remote.mode = "any" -> remote
    [] remote.mode = "script" -> ScriptAfter(op, resp)
    [] remote.mode = "tracked" /\ op = "DeleteDataSource" /\ resp.kind = "ok" ->
         [remote EXCEPT !.ds = "deleting"]
    [] remote.mode = "tracked" /\ op = "DeleteKnowledgeBase" /\ resp.kind = "ok" ->
         [remote EXCEPT !.kb = "deleting"]
    [] OTHER -> remote

\* no second invocation
NoOther == [id |-> 0]
\* the handler invoked on its own, outside a stack operation
NoStack == [phase |-> "none"]

Init ==
  /\ other = NoOther
  /\ remote = FreeRemote
  /\ stack = NoStack
  /\ event \in Events
  /\ clock = StartMs
  /\ pc = "handler"
  /\ deadlineMs = 0
  /\ dataSourceId = Undefined
  /\ description = NoWait
  /\ attempt = 0
  /\ delayMs = 0
  /\ result = Pending
  /\ caught = NoError
  /\ calls = <<>>
  /\ listed = NotListed
  /\ lastResp = NoResponse
  /\ sleeps = [w \in Waits |-> 0]
  /\ jobsActive = 0
  /\ jobsRejected = 0
  /\ firstJobs = "none"
  /\ goneSeen = {}
  /\ onlyNotFound = TRUE

\* the outer catch gone wrong: the error is logged and thrown again
CatchAndRethrow(error) ==
  /\ pc' = "thrown"
  /\ caught' = error
  /\ result' = Thrown(error)

\* the outer catch gone wrong: the error is logged and the sequence goes on
\* with the delete of the knowledge base
CatchAndCarryOn(error) ==
  /\ pc' = "deleteKnowledgeBase"
  /\ caught' = error
  /\ result' = result

\* the handler's outer catch: log the error, return the success indicator
CatchAndReturn(error) ==
  /\ pc' = "returned"
  /\ caught' = error
  /\ result' = ReturnedOk

\* the handler gone wrong: the data source is not confirmed gone, the
\* knowledge base is deleted right after the data source
EnterWaitUntilUnlessChild(what) ==
  /\ pc' = IF what = "data source deletion" THEN "deleteKnowledgeBase"
           ELSE "waitUntil"
  /\ description' = what
  /\ attempt' = 0

\* entry into waitUntil
EnterWaitUntil(what) ==
  /\ pc' = "waitUntil"
  /\ description' = what
  /\ attempt' = 0

\* handler, up to the first await: validation and the deadline
HandlerStart ==
  /\ pc = "handler"
  /\ IF ~Truthy(event.knowledgeBaseId)
     THEN /\ pc' = "thrown"
          /\ result' = Thrown(ErrRequired)
          /\ UNCHANGED deadlineMs
     ELSE /\ pc' = "resolveDataSourceId"
          /\ deadlineMs' = deadlineOf(clock, maxMinutesOf(event))
          /\ UNCHANGED result
  /\ UNCHANGED <<event, clock, dataSourceId, description, attempt, delayMs,
                 caught, calls, listed, lastResp, sleeps, pollHistory,
                 onlyNotFound, other, remote, stack>>

\* resolveDataSourceId and the handler's branch on its result
ResolveDataSourceId ==
  /\ pc = "resolveDataSourceId"
  /\ \E resp \in Answers("ListDataSources", ListDataSourcesResponses),
        latency \in Latencies :
       /\ clock' = clock + latency
       /\ remote' = RemoteAfter("ListDataSources", resp)
       /\ calls' = Append(calls, Call("ListDataSources", event.knowledgeBaseId, FALSE))
       /\ lastResp' = resp
       /\ onlyNotFound' = (onlyNotFound /\ resp.kind = "error" /\ isNotFoundError(resp))
       /\ IF resp.kind = "ok"
          THEN /\ listed' = resp.dataSourceSummaries
               /\ dataSourceId' =
                    resolveFromListing(resp.dataSourceSummaries,
                                       event.dataSourceNamePrefix)
          ELSE /\ listed' = listed
               /\ dataSourceId' = Undefined
       /\ IF resp.kind = "error" /\ ~isNotFoundError(resp)
          THEN /\ CatchAndReturn(resp)
               /\ UNCHANGED <<description, attempt>>
          ELSE /\ UNCHANGED <<result, caught>>
               /\ IF Truthy(dataSourceId')
                  THEN EnterWaitUntil(WaitJobs)
                  ELSE /\ pc' = "deleteKnowledgeBase"
                       /\ UNCHANGED <<description, attempt>>
  /\ UNCHANGED <<event, deadlineMs, delayMs, sleeps, pollHistory, other, stack>>

\* the remote operation a wait polls, and the identity it polls
OpOf(what) ==
  CASE what = WaitJobs -> "ListIngestionJobs"
    [] what = WaitDataSource -> "GetDataSource"
    [] what = WaitKnowledgeBase -> "GetKnowledgeBase"

IdOf(what) ==
  IF what = WaitKnowledgeBase THEN event.knowledgeBaseId ELSE dataSourceId

ResponsesOf(what) ==
  IF what = WaitJobs THEN ListIngestionJobsResponses ELSE PlainResponses

\* fn() of a wait throws: only the job listing lets a rejection escape, the
\* two get closures catch every error themselves
fnThrows(what, resp) == what = WaitJobs /\ resp.kind = "error"

\* predicate gone wrong: the job wait accepts any listing
predicateJobsAlwaysIdle(what, resp) ==
  IF what = "ingestion jobs to complete"
  THEN TRUE
  ELSE resp.kind = "error" /\ isNotFoundError(resp)

\* predicate gone wrong: the job wait has its test inverted
predicateJobsInverted(what, resp) ==
  IF what = "ingestion jobs to complete"
  THEN hasActiveJobs(resp)
  ELSE resp.kind = "error" /\ isNotFoundError(resp)

\* predicate gone wrong: a get that fails with any error counts as gone
predicateAnyErrorGone(what, resp) ==
  IF what = "ingestion jobs to complete"
  THEN ~hasActiveJobs(resp)
  ELSE resp.kind = "error"

\* predicate gone wrong: a get that succeeds counts as gone
predicateGetOkGone(what, resp) ==
  IF what = "ingestion jobs to complete"
  THEN ~hasActiveJobs(resp)
  ELSE resp.kind = "ok" \/ isNotFoundError(resp)

\* predicate gone wrong: a get answered not-found does not count as gone
predicateGetNeverGone(what, resp) ==
  IF what = "ingestion jobs to complete"
  THEN ~hasActiveJobs(resp)
  ELSE FALSE

\* predicate(result) of a wait, on the response fn() turned into its result
predicate(what, resp) ==
  IF what = WaitJobs
  THEN ~hasActiveJobs(resp)
  ELSE resp.kind = "error" /\ isNotFoundError(resp)

\* a delete's catch block gone wrong: every error is rethrown
deleteNothingTolerated(resp) == resp.kind = "ok"

\* a delete's catch block gone wrong: every error is swallowed
deleteEverythingTolerated(resp) == TRUE

\* a delete's catch block: not-found is tolerated, anything else rethrown
deleteTolerated(resp) == resp.kind = "ok" \/ isNotFoundError(resp)

\* how a ListIngestionJobs call was answered (history only)
JobsClass(what, resp) ==
  CASE what # WaitJobs -> "n/a"
    [] what = WaitJobs /\ resp.kind = "error" -> "rejected"
    [] what = WaitJobs /\ resp.kind = "ok" /\ hasActiveJobs(resp) -> "active"
    [] OTHER -> "idle"

\* the handler gone wrong: the knowledge base is deleted once the jobs are idle
AfterWaitUntilParentFirst(what) ==
  CASE what = "ingestion jobs to complete" ->
         /\ pc' = "deleteKnowledgeBase"
         /\ UNCHANGED <<result, caught>>
    [] what = "data source deletion" ->
         /\ pc' = "deleteKnowledgeBase"
         /\ UNCHANGED <<result, caught>>
    [] what = "knowledge base deletion" ->
         /\ pc' = "returned"
         /\ result' = ReturnedOk
         /\ UNCHANGED caught

\* the handler gone wrong: the data source is deleted again when its
\* confirmation returns
AfterWaitUntilDeleteAgain(what) ==
  CASE what = "ingestion jobs to complete" ->
         /\ pc' = "deleteDataSource"
         /\ UNCHANGED <<result, caught>>
    [] what = "data source deletion" ->
         /\ pc' = "deleteDataSource"
         /\ UNCHANGED <<result, caught>>
    [] what = "knowledge base deletion" ->
         /\ pc' = "returned"
         /\ result' = ReturnedOk
         /\ UNCHANGED caught

\* what the handler does when a wait returns
AfterWaitUntil(what) ==
  CASE what = WaitJobs ->
         /\ pc' = "deleteDataSource"
         /\ UNCHANGED <<result, caught>>
    [] what = WaitDataSource ->
         /\ pc' = "deleteKnowledgeBase"
         /\ UNCHANGED <<result, caught>>
    [] what = WaitKnowledgeBase ->
         /\ pc' = "returned"
         /\ result' = ReturnedOk
         /\ UNCHANGED caught

\* waitUntil: one pass of the loop body while the deadline is ahead
WaitUntilAttempt ==
  /\ pc = "waitUntil"
  /\ clock < deadlineMs
  /\ \E resp \in Answers(OpOf(description), ResponsesOf(description)),
        latency \in Latencies, rnd \in Randoms :
       LET satisfied == ~fnThrows(description, resp) /\ predicate(description, resp)
       IN  /\ clock' = clock + latency
           /\ remote' = RemoteAfter(OpOf(description), resp)
           /\ calls' = Append(calls, Call(OpOf(description), IdOf(description), satisfied))
           /\ lastResp' = resp
           /\ onlyNotFound' = (onlyNotFound /\ resp.kind = "error"
                                  /\ isNotFoundError(resp))
           /\ jobsActive' = IF JobsClass(description, resp) = "active"
                             THEN jobsActive + 1 ELSE jobsActive
           /\ jobsRejected' = IF JobsClass(description, resp) = "rejected"
                               THEN jobsRejected + 1 ELSE jobsRejected
           /\ firstJobs' = IF description = WaitJobs /\ firstJobs = "none"
                            THEN JobsClass(description, resp) ELSE firstJobs
           /\ goneSeen' = IF description # WaitJobs /\ resp.kind = "error"
                              /\ isNotFoundError(resp)
                           THEN goneSeen \cup {OpOf(description)} ELSE goneSeen
           /\ IF satisfied
              THEN /\ AfterWaitUntil(description)
                   /\ UNCHANGED <<attempt, delayMs, sleeps>>
              ELSE /\ attempt' = attempt + 1
                   /\ delayMs' = backoffDelay(attempt', rnd)
                   /\ sleeps' = [sleeps EXCEPT ![description] = @ + 1]
                   /\ pc' = "sleep"
                   /\ UNCHANGED <<result, caught>>
  /\ UNCHANGED <<event, deadlineMs, dataSourceId, description, listed, other, stack>>

\* waitUntil: the loop condition fails, the timeout error reaches the outer catch
WaitUntilTimeout ==
  /\ pc = "waitUntil"
  /\ ~(clock < deadlineMs)
  /\ CatchAndReturn(ErrTimeout(description))
  /\ UNCHANGED <<event, clock, deadlineMs, dataSourceId, description, attempt,
                 delayMs, calls, listed, lastResp, sleeps, pollHistory,
                 onlyNotFound, other, remote, stack>>

\* the sleep gone wrong: it lasts the event's polling interval, 5 s when the
\* event gives none
SleepPollSeconds ==
  /\ pc = "sleep"
  /\ clock' = clock + (IF event.pollSeconds = UndefinedNumber
                       THEN 5000
                       ELSE (event.pollSeconds[1] * 1000) \div event.pollSeconds[2])
  /\ delayMs' = 0
  /\ pc' = "waitUntil"
  /\ UNCHANGED <<event, deadlineMs, dataSourceId, description, attempt,
                 result, caught, calls, listed, lastResp, sleeps, pollHistory,
                 onlyNotFound, other, remote, stack>>

\* waitUntil: await sleep(delayMs)
Sleep ==
  /\ pc = "sleep"
  /\ clock' = clock + delayMs
  /\ delayMs' = 0
  /\ pc' = "waitUntil"
  /\ UNCHANGED <<event, deadlineMs, dataSourceId, description, attempt,
                 result, caught, calls, listed, lastResp, sleeps, pollHistory,
                 onlyNotFound, other, remote, stack>>

\* handler step 3: DeleteDataSource and its catch
DeleteDataSource ==
  /\ pc = "deleteDataSource"
  /\ \E resp \in Answers("DeleteDataSource", PlainResponses),
        latency \in Latencies :
       /\ clock' = clock + latency
       /\ remote' = RemoteAfter("DeleteDataSource", resp)
       /\ calls' = Append(calls, Call("DeleteDataSource", dataSourceId, FALSE))
       /\ lastResp' = resp
       /\ onlyNotFound' = (onlyNotFound /\ resp.kind = "error" /\ isNotFoundError(resp))
       /\ IF deleteTolerated(resp)
          THEN /\ EnterWaitUntil(WaitDataSource)
               /\ UNCHANGED <<result, caught>>
          ELSE /\ CatchAndReturn(resp)
               /\ UNCHANGED <<description, attempt>>
  /\ UNCHANGED <<event, deadlineMs, dataSourceId, delayMs, listed, sleeps,
                 pollHistory, other, stack>>

\* handler step 4: DeleteKnowledgeBase and its catch
DeleteKnowledgeBase ==
  /\ pc = "deleteKnowledgeBase"
  /\ \E resp \in Answers("DeleteKnowledgeBase", PlainResponses),
        latency \in Latencies :
       /\ clock' = clock + latency
       /\ remote' = RemoteAfter("DeleteKnowledgeBase", resp)
       /\ calls' = Append(calls, Call("DeleteKnowledgeBase", event.knowledgeBaseId, FALSE))
       /\ lastResp' = resp
       /\ onlyNotFound' = (onlyNotFound /\ resp.kind = "error" /\ isNotFoundError(resp))
       /\ IF deleteTolerated(resp)
          THEN /\ EnterWaitUntil(WaitKnowledgeBase)
               /\ UNCHANGED <<result, caught>>
          ELSE /\ CatchAndReturn(resp)
               /\ UNCHANGED <<description, attempt>>
  /\ UNCHANGED <<event, deadlineMs, dataSourceId, delayMs, listed, sleeps,
                 pollHistory, other, stack>>

Next ==
  \/ HandlerStart
  \/ ResolveDataSourceId
  \/ WaitUntilAttempt
  \/ WaitUntilTimeout
  \/ Sleep
  \/ DeleteDataSource
  \/ DeleteKnowledgeBase

Spec == Init /\ [][Next]_vars

\* every remote call returns and every sleep ends: a step the handler can
\* take is taken
SpecFair == Spec /\ WF_vars(Next)

(* ------------------------------------------------- two racing invocations -- *)
\* Two invocations of the handler for the same knowledge base (a retried
\* delete of the custom resource). Each runs in its own execution environment
\* with its own locals; what they share is the service. The variables above
\* hold the locals of the invocation that takes the next step, `other` those
\* of the one that does not.

\* the invocation taking the next step
RunningId == IF other.id = 0 THEN 1 ELSE 3 - other.id

\* the locals of the running invocation
Locals(id) ==
  [id |-> id, event |-> event, clock |-> clock, pc |-> pc,
   deadlineMs |-> deadlineMs, dataSourceId |-> dataSourceId,
   description |-> description, attempt |-> attempt, delayMs |-> delayMs,
   result |-> result, caught |-> caught, calls |-> calls, listed |-> listed,
   lastResp |-> lastResp, sleeps |-> sleeps, jobsActive |-> jobsActive,
   jobsRejected |-> jobsRejected, firstJobs |-> firstJobs,
   goneSeen |-> goneSeen, onlyNotFound |-> onlyNotFound]

\* the locals of an invocation entered at `now`
Entered(id, e, now) ==
  [id |-> id, event |-> e, clock |-> now, pc |-> "handler",
   deadlineMs |-> 0, dataSourceId |-> Undefined,
   description |-> NoWait, attempt |-> 0, delayMs |-> 0,
   result |-> Pending, caught |-> NoError, calls |-> <<>>, listed |-> NotListed,
   lastResp |-> NoResponse, sleeps |-> [w \in Waits |-> 0], jobsActive |-> 0,
   jobsRejected |-> 0, firstJobs |-> "none",
   goneSeen |-> {}, onlyNotFound |-> TRUE]

\* the payload of the custom resource's onDelete, with the budget of the model
RaceEvent ==
  [knowledgeBaseId |-> KB1, dataSourceNamePrefix |-> PrefixDs,
   maxMinutes |-> <<1, MinutesDen>>]

Ended(l) == l.pc \in {"returned", "thrown"}

InitRace ==
  /\ remote \in {TrackedRemote("present", "present", job) :
                    job \in {"IN_PROGRESS", "COMPLETE"}}
  /\ other = Entered(2, RaceEvent, StartMs + RetryDelayMs)
  /\ stack = NoStack
  /\ event = RaceEvent
  /\ clock = StartMs
  /\ pc = "handler"
  /\ deadlineMs = 0
  /\ dataSourceId = Undefined
  /\ description = NoWait
  /\ attempt = 0
  /\ delayMs = 0
  /\ result = Pending
  /\ caught = NoError
  /\ calls = <<>>
  /\ listed = NotListed
  /\ lastResp = NoResponse
  /\ sleeps = [w \in Waits |-> 0]
  /\ jobsActive = 0
  /\ jobsRejected = 0
  /\ firstJobs = "none"
  /\ goneSeen = {}
  /\ onlyNotFound = TRUE

\* the other invocation takes over: the two sets of locals change places
Switch ==
  /\ other.id # 0
  /\ ~Ended(other)
  /\ other' = Locals(RunningId)
  /\ event' = other.event
  /\ clock' = other.clock
  /\ pc' = other.pc
  /\ deadlineMs' = other.deadlineMs
  /\ dataSourceId' = other.dataSourceId
  /\ description' = other.description
  /\ attempt' = other.attempt
  /\ delayMs' = other.delayMs
  /\ result' = other.result
  /\ caught' = other.caught
  /\ calls' = other.calls
  /\ listed' = other.listed
  /\ lastResp' = other.lastResp
  /\ sleeps' = other.sleeps
  /\ jobsActive' = other.jobsActive
  /\ jobsRejected' = other.jobsRejected
  /\ firstJobs' = other.firstJobs
  /\ goneSeen' = other.goneSeen
  /\ onlyNotFound' = other.onlyNotFound
  /\ UNCHANGED <<remote, stack>>

\* the service finishes something on its own: the ingestion job completes, a
\* deletion it has accepted is carried out
RemoteSettles ==
  /\ remote.mode = "tracked"
  /\ \/ remote.job = "IN_PROGRESS" /\ remote' = [remote EXCEPT !.job = "COMPLETE"]
     \/ remote.ds = "deleting" /\ remote' = [remote EXCEPT !.ds = "gone"]
     \/ remote.kb = "deleting" /\ remote' = [remote EXCEPT !.kb = "gone", !.ds = "gone"]
  /\ UNCHANGED <<event, clock, pc, deadlineMs, dataSourceId, description, attempt,
                 delayMs, result, caught, calls, listed, lastResp, sleeps,
                 pollHistory, onlyNotFound, other, stack>>

NextRace ==
  \/ Next
  \/ Switch
  \/ RemoteSettles

SpecRace == InitRace /\ [][NextRace]_vars

\* each invocation runs on its own executor: an invocation that can take a
\* step takes it; nothing is assumed of the service
SpecRaceFair ==
  SpecRace /\ WF_vars(Next) /\ WF_vars(Switch)

(* ------------------------------------------------ the stack of the construct -- *)
\* The construct declares five resources and the dependencies between them;
\* CloudFormation creates a resource once everything it depends on is created
\* and deletes it once everything that depends on it is deleted. Three of the
\* resources and the finalizer are AwsCustomResources: their onCreate and
\* onDelete are one SDK call each, and an error whose code matches
\* ignoreErrorCodesMatching is passed over.

Resources ==
  {"vectorsBucket", "vectorsIndex", "knowledgeBase", "dataSource", "finalizer"}

\* the dependencies gone wrong: the knowledge base does not depend on the index
DependencyEdgesWithoutIndexEdge ==
  { <<"vectorsIndex", "vectorsBucket">>,
    <<"dataSource", "knowledgeBase">>,
    <<"finalizer", "dataSource">>,
    <<"finalizer", "knowledgeBase">>,
    <<"finalizer", "vectorsIndex">>,
    <<"finalizer", "vectorsBucket">> }

\* node.addDependency: <<dependent, dependency>>
DependencyEdges ==
  { <<"vectorsIndex", "vectorsBucket">>,
    <<"knowledgeBase", "vectorsIndex">>,
    <<"dataSource", "knowledgeBase">>,
    <<"finalizer", "dataSource">>,
    <<"finalizer", "knowledgeBase">>,
    <<"finalizer", "vectorsIndex">>,
    <<"finalizer", "vectorsBucket">> }

DependenciesOf(r) == {e[2] : e \in {d \in DependencyEdges : d[1] = r}}
DependentsOf(r) == {e[1] : e \in {d \in DependencyEdges : d[2] = r}}

NameResourceAlreadyExistsException ==
  <<"R","e","s","o","u","r","c","e","A","l","r","e","a","d","y","E","x","i","s","t","s","E","x","c","e","p","t","i","o","n">>
NameTooManyRequestsException ==
  <<"T","o","o","M","a","n","y","R","e","q","u","e","s","t","s","E","x","c","e","p","t","i","o","n">>
NameNoSuchBucket == <<"N","o","S","u","c","h","B","u","c","k","e","t">>
NameNoSuchIndex == <<"N","o","S","u","c","h","I","n","d","e","x">>
NameNotFound == <<"N","o","t","F","o","u","n","d">>
NameValidationException ==
  <<"V","a","l","i","d","a","t","i","o","n","E","x","c","e","p","t","i","o","n">>
MsgInvalid == <<"i","n","v","a","l","i","d">>

\* the rejection of a create that names something the service does not have
ErrValidation ==
  [kind |-> "error", name |-> NameValidationException, message |-> MsgInvalid]

\* ignoreErrorCodesMatching of each call, as the alternatives of the pattern
IgnoredOnCreateVectorBucket ==
  {NameConflictException, NameResourceAlreadyExistsException,
   NameThrottlingException, NameTooManyRequestsException}
IgnoredOnDeleteVectorBucket ==
  {NameResourceNotFoundException, NameNoSuchBucket,
   NameThrottlingException, NameTooManyRequestsException}
IgnoredOnCreateIndex ==
  {NameConflictException, NameResourceAlreadyExistsException,
   NameThrottlingException, NameTooManyRequestsException}
IgnoredOnDeleteIndex ==
  {NameResourceNotFoundException, NameNoSuchIndex,
   NameThrottlingException, NameTooManyRequestsException}
\* createKnowledgeBase declares no ignoreErrorCodesMatching
IgnoredOnCreateKnowledgeBase == {}
IgnoredOnDeleteKnowledgeBase ==
  {NameResourceNotFoundException, NameNotFound, NameConflictException}
\* the data source is a CfnDataSource: a create fails on any error, a delete
\* of a data source that is not there succeeds
IgnoredOnCreateDataSource == {}
IgnoredOnDeleteDataSource == {NameResourceNotFoundException}

\* new RegExp(pattern).test(code): one of the alternatives occurs in the code
ignoreErrorCodesMatching(pattern, error) ==
  \E alternative \in pattern : includes(error.name, alternative)

\* the payload of the finalizer's onCreate
NoopEvent ==
  [knowledgeBaseId |-> Undefined, dataSourceNamePrefix |-> Undefined,
   maxMinutes |-> UndefinedNumber]

\* the payload of the finalizer's onDelete
FinalizerEvent ==
  [knowledgeBaseId |-> KB1, dataSourceNamePrefix |-> PrefixDs,
   maxMinutes |-> <<15, 1>>]

\* the service at the start of a deployment: nothing, or what an earlier
\* deployment left behind
StackRemotes ==
  { [mode |-> "tracked", bucket |-> b, index |-> i, kb |-> k, ds |-> d, job |-> j] :
      b \in {"gone", "present"}, i \in {"gone", "present"},
      k \in {"gone", "present"}, d \in {"gone", "present"},
      j \in {"IN_PROGRESS", "COMPLETE"} }

LeftBehind ==
  { r \in StackRemotes :
      /\ r.index = "present" => r.bucket = "present"
      /\ r.kb = "present" => r.index = "present"
      /\ r.ds = "present" => r.kb = "present" }

NewStack ==
  [phase |-> "CREATE_IN_PROGRESS", created |-> {}, deleted |-> {},
   invoked |-> FALSE, invokedAt |-> 0, log |-> <<>>]

InitStack ==
  /\ remote \in LeftBehind
  /\ other = NoOther
  /\ stack = NewStack
  /\ event = NoopEvent
  /\ clock = StartMs
  /\ pc = "idle"
  /\ deadlineMs = 0
  /\ dataSourceId = Undefined
  /\ description = NoWait
  /\ attempt = 0
  /\ delayMs = 0
  /\ result = Pending
  /\ caught = NoError
  /\ calls = <<>>
  /\ listed = NotListed
  /\ lastResp = NoResponse
  /\ sleeps = [w \in Waits |-> 0]
  /\ jobsActive = 0
  /\ jobsRejected = 0
  /\ firstJobs = "none"
  /\ goneSeen = {}
  /\ onlyNotFound = TRUE

\* the locals of the handler
locals ==
  <<event, clock, pc, deadlineMs, dataSourceId, description, attempt, delayMs,
    result, caught, calls, listed, lastResp, sleeps, pollHistory, onlyNotFound>>

\* Lambda invoke: the handler is entered with the payload
Invoke(payload) ==
  /\ event' = payload
  /\ pc' = "handler"
  /\ deadlineMs' = 0
  /\ dataSourceId' = Undefined
  /\ description' = NoWait
  /\ attempt' = 0
  /\ delayMs' = 0
  /\ result' = Pending
  /\ caught' = NoError
  /\ calls' = <<>>
  /\ listed' = NotListed
  /\ lastResp' = NoResponse
  /\ sleeps' = [w \in Waits |-> 0]
  /\ jobsActive' = 0
  /\ jobsRejected' = 0
  /\ firstJobs' = "none"
  /\ goneSeen' = {}
  /\ onlyNotFound' = TRUE
  /\ UNCHANGED clock

CanCreate(r) ==
  /\ stack.phase = "CREATE_IN_PROGRESS"
  /\ r \notin stack.created
  /\ DependenciesOf(r) \subseteq stack.created

CanDelete(r) ==
  /\ stack.phase = "DELETE_IN_PROGRESS"
  /\ r \in stack.created \ stack.deleted
  /\ DependentsOf(r) \subseteq stack.deleted

\* the step of a resource has ended: with an answer that is a success or an
\* ignored error the resource is done, any other answer fails the operation
StepDone(step, r, resp, pattern) ==
  LET done == resp.kind = "ok" \/ ignoreErrorCodesMatching(pattern, resp)
      created == IF step = "create" /\ done
                 THEN stack.created \cup {r} ELSE stack.created
      deleted == IF step = "delete" /\ done
                 THEN stack.deleted \cup {r} ELSE stack.deleted
  IN  stack' =
        [stack EXCEPT
           !.created = created,
           !.deleted = deleted,
           !.log = Append(@, [step |-> step, resource |-> r, answer |-> resp,
                              done |-> done, before |-> remote]),
           !.phase = CASE ~done /\ step = "create" -> "CREATE_FAILED"
                       [] ~done /\ step = "delete" -> "DELETE_FAILED"
                       [] done /\ created = Resources /\ deleted = {} ->
                            "CREATE_COMPLETE"
                       [] done /\ deleted = Resources -> "DELETE_COMPLETE"
                       [] OTHER -> @]

\* S3Vectors createVectorBucket
S3VectorsBucketOnCreate ==
  /\ CanCreate("vectorsBucket")
  /\ \E resp \in IF remote.bucket = "present" THEN {ErrConflict}
                 ELSE {OkAnswer, ErrThrottling} :
       /\ StepDone("create", "vectorsBucket", resp, IgnoredOnCreateVectorBucket)
       /\ remote' = IF resp.kind = "ok"
                    THEN [remote EXCEPT !.bucket = "present"] ELSE remote
  /\ UNCHANGED <<locals, other>>

\* S3Vectors createIndex
S3VectorsIndexOnCreate ==
  /\ CanCreate("vectorsIndex")
  /\ \E resp \in CASE remote.bucket = "gone" -> {ErrNotFoundMessage}
                   [] remote.bucket # "gone" /\ remote.index = "present" ->
                        {ErrConflict}
                   [] OTHER -> {OkAnswer, ErrThrottling} :
       /\ StepDone("create", "vectorsIndex", resp, IgnoredOnCreateIndex)
       /\ remote' = IF resp.kind = "ok"
                    THEN [remote EXCEPT !.index = "present"] ELSE remote
  /\ UNCHANGED <<locals, other>>

\* BedrockAgent createKnowledgeBase; a knowledge base of that name that is
\* already there is returned when the client token is recognised and is a
\* conflict otherwise
KnowledgeBaseOnCreate ==
  /\ CanCreate("knowledgeBase")
  /\ \E resp \in CASE remote.index = "gone" -> {ErrValidation}
                   [] remote.index # "gone" /\ remote.kb = "present" ->
                        {OkAnswer, ErrConflict}
                   [] OTHER -> {OkAnswer} :
       /\ StepDone("create", "knowledgeBase", resp, IgnoredOnCreateKnowledgeBase)
       /\ remote' = IF resp.kind = "ok"
                    THEN [remote EXCEPT !.kb = "present"] ELSE remote
  /\ UNCHANGED <<locals, other>>

\* the CfnDataSource is created
DataSourceCreate ==
  /\ CanCreate("dataSource")
  /\ \E resp \in IF remote.ds = "present" THEN {ErrConflict} ELSE {OkAnswer} :
       /\ StepDone("create", "dataSource", resp, IgnoredOnCreateDataSource)
       /\ remote' = IF resp.kind = "ok"
                    THEN [remote EXCEPT !.ds = "present"] ELSE remote
  /\ UNCHANGED <<locals, other>>

\* Lambda invoke, InvocationType Event: the handler is entered with the noop
\* payload and the step is done
CleanupFinalizerOnCreate ==
  /\ CanCreate("finalizer")
  /\ StepDone("create", "finalizer", OkAnswer, {})
  /\ Invoke(NoopEvent)
  /\ UNCHANGED <<remote, other>>

\* the stack is destroyed
DeleteStack ==
  /\ stack.phase = "CREATE_COMPLETE"
  /\ stack' = [stack EXCEPT !.phase = "DELETE_IN_PROGRESS"]
  /\ UNCHANGED <<locals, other, remote>>

\* Lambda invoke, InvocationType RequestResponse: the handler is entered with
\* the cleanup payload
CleanupFinalizerOnDelete ==
  /\ CanDelete("finalizer")
  /\ ~stack.invoked
  /\ pc \in {"idle", "returned", "thrown"}
  /\ stack' = [stack EXCEPT !.invoked = TRUE, !.invokedAt = clock]
  /\ Invoke(FinalizerEvent)
  /\ UNCHANGED <<remote, other>>

\* the invocation has ended and the invoke call returns: the step is done
CleanupFinalizerDeleted ==
  /\ CanDelete("finalizer")
  /\ stack.invoked
  /\ pc \in {"returned", "thrown"}
  /\ StepDone("delete", "finalizer", OkAnswer, {})
  /\ UNCHANGED <<locals, other, remote>>

\* the CfnDataSource is deleted; the step ends when the data source is gone
DataSourceDelete ==
  /\ CanDelete("dataSource")
  /\ \E resp \in IF remote.ds = "gone" \/ remote.kb = "gone"
                 THEN {ErrNotFoundMessage} ELSE {OkAnswer} :
       /\ StepDone("delete", "dataSource", resp, IgnoredOnDeleteDataSource)
       /\ remote' = IF resp.kind = "ok"
                    THEN [remote EXCEPT !.ds = "gone"] ELSE remote
  /\ UNCHANGED <<locals, other>>

\* BedrockAgent deleteKnowledgeBase: the call returns when the deletion is
\* accepted
KnowledgeBaseOnDelete ==
  /\ CanDelete("knowledgeBase")
  /\ \E resp \in TrackedAnswers("DeleteKnowledgeBase") :
       /\ StepDone("delete", "knowledgeBase", resp, IgnoredOnDeleteKnowledgeBase)
       /\ remote' = RemoteAfter("DeleteKnowledgeBase", resp)
  /\ UNCHANGED <<locals, other>>

\* S3Vectors deleteIndex
S3VectorsIndexOnDelete ==
  /\ CanDelete("vectorsIndex")
  /\ \E resp \in IF remote.index = "gone" THEN {ErrNotFoundMessage}
                 ELSE {OkAnswer, ErrThrottling} :
       /\ StepDone("delete", "vectorsIndex", resp, IgnoredOnDeleteIndex)
       /\ remote' = IF resp.kind = "ok"
                    THEN [remote EXCEPT !.index = "gone"] ELSE remote
  /\ UNCHANGED <<locals, other>>

\* S3Vectors deleteVectorBucket: a bucket that still holds an index is kept
S3VectorsBucketOnDelete ==
  /\ CanDelete("vectorsBucket")
  /\ \E resp \in CASE remote.bucket = "gone" -> {ErrNotFoundMessage}
                   [] remote.bucket # "gone" /\ remote.index = "present" ->
                        {ErrConflict}
                   [] OTHER -> {OkAnswer, ErrThrottling} :
       /\ StepDone("delete", "vectorsBucket", resp, IgnoredOnDeleteVectorBucket)
       /\ remote' = IF resp.kind = "ok"
                    THEN [remote EXCEPT !.bucket = "gone"] ELSE remote
  /\ UNCHANGED <<locals, other>>

NextStack ==
  \/ S3VectorsBucketOnCreate
  \/ S3VectorsIndexOnCreate
  \/ KnowledgeBaseOnCreate
  \/ DataSourceCreate
  \/ CleanupFinalizerOnCreate
  \/ DeleteStack
  \/ CleanupFinalizerOnDelete
  \/ CleanupFinalizerDeleted
  \/ DataSourceDelete
  \/ KnowledgeBaseOnDelete
  \/ S3VectorsIndexOnDelete
  \/ S3VectorsBucketOnDelete
  \/ Next
  \/ RemoteSettles

SpecStack == InitStack /\ [][NextStack]_vars


(* ------------------------------------------------ the construct's validation -- *)
\* The constructor validates the embedding model against the vector dimension
\* before it defines any resource.

StrTitanV2 == <<"t","i","t","a","n","-","e","m","b","e","d","-","t","e","x","t","-",
    "v","2">>
StrTitanV1 == <<"t","i","t","a","n","-","e","m","b","e","d","-","t","e","x","t","-",
    "v","1">>

\* getEmbeddingModelArn(region), the default model
ArnTitanV2 ==
  <<"a","r","n",":","a","w","s",":","b","e","d","r","o","c","k",":","u",
    "s","-","e","a","s","t","-","1",":",":","f","o","u","n","d","a","t",
    "i","o","n","-","m","o","d","e","l","/","a","m","a","z","o","n",".",
    "t","i","t","a","n","-","e","m","b","e","d","-","t","e","x","t","-",
    "v","2",":","0">>
ArnTitanV1 ==
  <<"a","r","n",":","a","w","s",":","b","e","d","r","o","c","k",":","u",
    "s","-","e","a","s","t","-","1",":",":","f","o","u","n","d","a","t",
    "i","o","n","-","m","o","d","e","l","/","a","m","a","z","o","n",".",
    "t","i","t","a","n","-","e","m","b","e","d","-","t","e","x","t","-",
    "v","1">>
ArnTitanV2West ==
  <<"a","r","n",":","a","w","s",":","b","e","d","r","o","c","k",":","u",
    "s","-","w","e","s","t","-","2",":",":","f","o","u","n","d","a","t",
    "i","o","n","-","m","o","d","e","l","/","a","m","a","z","o","n",".",
    "t","i","t","a","n","-","e","m","b","e","d","-","t","e","x","t","-",
    "v","2",":","0">>
ArnCohere ==
  <<"a","r","n",":","a","w","s",":","b","e","d","r","o","c","k",":","u",
    "s","-","e","a","s","t","-","1",":",":","f","o","u","n","d","a","t",
    "i","o","n","-","m","o","d","e","l","/","c","o","h","e","r","e",".",
    "e","m","b","e","d","-","e","n","g","l","i","s","h","-","v","3">>

EmbeddingModelArns == {ArnTitanV2, ArnTitanV1, ArnTitanV2West, ArnCohere}

\* props.vectorDimension: the multiples of 128, or not given
VectorDimensions ==
  {<<128 * k, 1>> : k \in 1..MaxDimensionSteps} \cup {UndefinedNumber}

\* props?.vectorDimension ?? 1024
vectorDimensionOf(d) ==
  IF d = UndefinedNumber THEN DefaultVectorDimension ELSE d[1]

\* validateModelDimensionCompatibility: TRUE when it returns, FALSE when it throws
validateModelDimensionCompatibility(embeddingModelArn, vectorDimension) ==
  CASE includes(embeddingModelArn, StrTitanV2) -> vectorDimension = 1024
    [] ~includes(embeddingModelArn, StrTitanV2)
         /\ includes(embeddingModelArn, StrTitanV1) -> vectorDimension = 1536
    [] OTHER -> ~(vectorDimension # 1024 /\ vectorDimension # 1536)

InitConstruct ==
  /\ stack \in [phase : {"NEW"}, embeddingModelArn : EmbeddingModelArns,
                vectorDimension : VectorDimensions, resources : {{}}]
  /\ remote = FreeRemote
  /\ other = NoOther
  /\ event = NoopEvent
  /\ clock = StartMs
  /\ pc = "idle"
  /\ deadlineMs = 0
  /\ dataSourceId = Undefined
  /\ description = NoWait
  /\ attempt = 0
  /\ delayMs = 0
  /\ result = Pending
  /\ caught = NoError
  /\ calls = <<>>
  /\ listed = NotListed
  /\ lastResp = NoResponse
  /\ sleeps = [w \in Waits |-> 0]
  /\ jobsActive = 0
  /\ jobsRejected = 0
  /\ firstJobs = "none"
  /\ goneSeen = {}
  /\ onlyNotFound = TRUE

\* the constructor: the validation, then the resources and their dependencies
Construct ==
  /\ stack.phase = "NEW"
  /\ IF validateModelDimensionCompatibility(stack.embeddingModelArn,
                                            vectorDimensionOf(stack.vectorDimension))
     THEN stack' = [stack EXCEPT !.phase = "CONSTRUCTED", !.resources = Resources]
     ELSE stack' = [stack EXCEPT !.phase = "THROWN"]
  /\ UNCHANGED <<locals, other, remote>>

SpecConstruct == InitConstruct /\ [][Construct]_vars

(* --------------------------------------------------- backoffDelay on its own -- *)
\* values of Math.random(), which is at least 0 and less than 1
FineRandoms == {<<k, RandomDen>> : k \in 0..(RandomDen - 1)}

\* waitUntil after a failed attempt, the attempt number already incremented
InitBackoff ==
  /\ attempt \in 1..MaxAttempt
  /\ pc = "backoff"
  /\ stack = NoStack
  /\ remote = FreeRemote
  /\ other = NoOther
  /\ event = NoopEvent
  /\ clock = StartMs
  /\ deadlineMs = 0
  /\ dataSourceId = Undefined
  /\ description = NoWait
  /\ delayMs = 0
  /\ result = Pending
  /\ caught = NoError
  /\ calls = <<>>
  /\ listed = NotListed
  /\ lastResp = NoResponse
  /\ sleeps = [w \in Waits |-> 0]
  /\ jobsActive = 0
  /\ jobsRejected = 0
  /\ firstJobs = "none"
  /\ goneSeen = {}
  /\ onlyNotFound = TRUE

\* const delayMs = backoffDelay(attempt)
BackoffDelay ==
  /\ pc = "backoff"
  /\ \E rnd \in FineRandoms : delayMs' = backoffDelay(attempt, rnd)
  /\ pc' = "sleep"
  /\ UNCHANGED <<event, clock, deadlineMs, dataSourceId, description, attempt,
                 result, caught, calls, listed, lastResp, sleeps, pollHistory,
                 onlyNotFound, other, remote, stack>>

SpecBackoff == InitBackoff /\ [][BackoffDelay]_vars

(* ------------------------------------------- two invocations, two pollSeconds -- *)
\* Two invocations whose events differ in pollSeconds only, entered at the
\* same time, each with its own locals, against the scripted service.

\* CleanupEvent.pollSeconds: not given, the finalizer's 5, something else
PollSecondsValues == <<UndefinedNumber, <<5, 1>>, <<60, 1>>>>

PollEvent(pollSeconds) ==
  [knowledgeBaseId |-> KB1, dataSourceNamePrefix |-> PrefixDs,
   pollSeconds |-> pollSeconds, maxMinutes |-> <<1, MinutesDen>>]

InitPoll ==
  /\ remote = ScriptRemote
  /\ stack = NoStack
  /\ \E i \in 1..Len(PollSecondsValues), j \in 1..Len(PollSecondsValues) :
       /\ i < j
       /\ event = PollEvent(PollSecondsValues[i])
       /\ other = Entered(2, PollEvent(PollSecondsValues[j]), StartMs)
  /\ clock = StartMs
  /\ pc = "handler"
  /\ deadlineMs = 0
  /\ dataSourceId = Undefined
  /\ description = NoWait
  /\ attempt = 0
  /\ delayMs = 0
  /\ result = Pending
  /\ caught = NoError
  /\ calls = <<>>
  /\ listed = NotListed
  /\ lastResp = NoResponse
  /\ sleeps = [w \in Waits |-> 0]
  /\ jobsActive = 0
  /\ jobsRejected = 0
  /\ firstJobs = "none"
  /\ goneSeen = {}
  /\ onlyNotFound = TRUE

\* the two invocations do not act on each other, so one order of their steps
\* stands for all: an invocation runs up to its next call and then lets the
\* other catch up
RunsOn == Len(calls) <= Len(other.calls) \/ Ended(other)
HandsOver == Len(calls) > Len(other.calls) \/ pc \in {"returned", "thrown"}

NextPoll ==
  \/ RunsOn /\ Next
  \/ HandsOver /\ Switch

SpecPoll == InitPoll /\ [][NextPoll]_vars

TypeOK ==
  /\ pc \in {"idle", "handler", "resolveDataSourceId", "waitUntil", "sleep",
              "deleteDataSource", "deleteKnowledgeBase", "returned", "thrown"}
  /\ description \in Waits \cup {NoWait}
  /\ attempt \in Nat
  /\ clock \in Nat

(* ------------------------------------------------------ observed history -- *)
CallIndexes(op) == {i \in 1..Len(calls) : calls[i].op = op}
Issued(op) == CallIndexes(op) # {}
CountOf(op) == Cardinality(CallIndexes(op))
LastCallIs(op) == Len(calls) > 0 /\ calls[Len(calls)].op = op
RespNotFound(resp) == resp.kind = "error" /\ isNotFoundError(resp)

\* ListDataSources has answered with a listing
Listed == listed # NotListed
\* the data sources of the listing that match the request: those whose name
\* starts with the prefix, or all of them when no prefix is given
MatchIndexes ==
  IF ~Listed \/ listed = UndefinedList THEN {}
  ELSE {i \in 1..Len(listed) :
          Truthy(event.dataSourceNamePrefix) =>
            startsWith(listed[i].name, event.dataSourceNamePrefix)}
UniqueMatchId == listed[CHOOSE i \in MatchIndexes : TRUE].dataSourceId

Completed == pc = "returned" /\ caught = NoError
Failed == pc = "returned" /\ caught # NoError

(* ----------------------------------------------------------------- C1 ---- *)
\* C1 as stated: for every request event the invocation ends by returning
\* {ok: true}; nothing is ever thrown to the caller.
C1_AlwaysReturnsOk ==
  /\ result.state # "thrown"
  /\ pc \in {"returned", "thrown"} => result = ReturnedOk

\* C1 (amended): for every request event that carries a non-empty
\* knowledgeBaseId, whatever the remote services answer, the invocation never
\* throws and a failure of the sequence (timeout of a wait, non-tolerated
\* remote error) ends in the return of {ok: true}.
C1_ReturnsOkWhenValid ==
  Truthy(event.knowledgeBaseId) =>
    /\ result.state # "thrown"
    /\ pc # "thrown"
    /\ pc = "returned" => result = ReturnedOk
    /\ caught # NoError => pc = "returned" /\ result = ReturnedOk

\* a wait timed out and the caller still received {ok: true}
C1_Witness ==
  /\ pc = "returned"
  /\ caught.kind = "timeout"
  /\ result = ReturnedOk

(* ----------------------------------------------------------------- C2 ---- *)
\* C2: when the listing shows two or more matching data sources, no
\* DeleteDataSource is issued, the job wait and the data source confirmation
\* are skipped (no ListIngestionJobs, no GetDataSource), and the next call
\* after the listing is DeleteKnowledgeBase.
C2_AmbiguousSkipsChild ==
  (Listed /\ Cardinality(MatchIndexes) >= 2) =>
    /\ ~Issued("DeleteDataSource")
    /\ ~Issued("ListIngestionJobs")
    /\ ~Issued("GetDataSource")
    /\ sleeps[WaitJobs] = 0 /\ sleeps[WaitDataSource] = 0
    /\ IF Len(calls) = 1
       THEN pc = "deleteKnowledgeBase" /\ caught = NoError
       ELSE calls[2] = Call("DeleteKnowledgeBase", event.knowledgeBaseId, FALSE)

C2_Witness ==
  /\ Listed /\ Cardinality(MatchIndexes) >= 2
  /\ Issued("DeleteKnowledgeBase")

(* ----------------------------------------------------------------- C3 ---- *)
\* C3: when the listing shows no matching data source, the handler neither
\* blocks nor fails: no DeleteDataSource and no ListIngestionJobs is issued
\* and the next call after the listing is DeleteKnowledgeBase.
C3_NoMatchProceedsToParent ==
  (Listed /\ MatchIndexes = {}) =>
    /\ ~Issued("DeleteDataSource")
    /\ ~Issued("ListIngestionJobs")
    /\ IF Len(calls) = 1
       THEN pc = "deleteKnowledgeBase" /\ caught = NoError
       ELSE calls[2] = Call("DeleteKnowledgeBase", event.knowledgeBaseId, FALSE)

\* a listing with a data source in it, none matching the prefix
C3_Witness ==
  /\ Listed /\ MatchIndexes = {}
  /\ listed # UndefinedList /\ Len(listed) >= 1
  /\ Issued("DeleteKnowledgeBase")

(* ----------------------------------------------------------------- C4 ---- *)
\* C4: every DeleteDataSource call carries the id of the data source that the
\* listing showed as the one and only match; without a unique match no
\* DeleteDataSource is issued.
C4_OnlyUniqueMatchDeleted ==
  \A i \in CallIndexes("DeleteDataSource") :
    /\ Listed
    /\ Cardinality(MatchIndexes) = 1
    /\ calls[i].id = UniqueMatchId

\* the unique match was deleted although the listing held another data
\* source in front of it
C4_Witness ==
  /\ Issued("DeleteDataSource")
  /\ Cardinality(MatchIndexes) = 1
  /\ Len(listed) = 2
  /\ 2 \in MatchIndexes

(* ----------------------------------------------------------------- C5 ---- *)
\* position of a remote operation in the order of the phases
Rank(op) ==
  CASE op = "ListDataSources" -> 1
    [] op = "ListIngestionJobs" -> 2
    [] op = "DeleteDataSource" -> 3
    [] op = "GetDataSource" -> 4
    [] op = "DeleteKnowledgeBase" -> 5
    [] op = "GetKnowledgeBase" -> 6

\* the calls follow the order of the phases; the list and the two deletes
\* happen at most once
PhaseOrder ==
  /\ \A i, j \in 1..Len(calls) : i < j => Rank(calls[i].op) <= Rank(calls[j].op)
  /\ CountOf("ListDataSources") <= 1
  /\ CountOf("DeleteDataSource") <= 1
  /\ CountOf("DeleteKnowledgeBase") <= 1

\* GetDataSource has reported not-found for the data source with this id
ConfirmedGone(id) == id = dataSourceId /\ "GetDataSource" \in goneSeen

\* C5 as stated: DeleteKnowledgeBase is never issued while a data source of
\* the knowledge base has not been confirmed gone by GetDataSource.
C5_EveryChildGoneBeforeParent ==
  (Issued("DeleteKnowledgeBase") /\ Listed /\ listed # UndefinedList) =>
    \A i \in 1..Len(listed) : ConfirmedGone(listed[i].dataSourceId)

\* C5 (amended): the resolved data source is confirmed gone before the
\* knowledge base is touched: with a uniquely matched data source,
\* DeleteKnowledgeBase is issued only right after GetDataSource reported
\* not-found for it; and in every run the calls follow the order of the
\* phases without overlap.
C5_ResolvedChildGoneBeforeParent ==
  /\ PhaseOrder
  /\ (Truthy(dataSourceId) /\ pc = "deleteKnowledgeBase") =>
       /\ calls[Len(calls)] = Call("GetDataSource", dataSourceId, TRUE)
       /\ RespNotFound(lastResp)
  /\ (Truthy(dataSourceId) /\ Issued("DeleteKnowledgeBase")) =>
       /\ ConfirmedGone(dataSourceId)
       /\ \A k \in CallIndexes("DeleteKnowledgeBase") :
            calls[k - 1].op = "GetDataSource" /\ calls[k - 1].id = dataSourceId

\* the knowledge base delete followed a data source that took two polls to go
C5_Witness ==
  /\ Truthy(dataSourceId)
  /\ Issued("DeleteKnowledgeBase")
  /\ CountOf("GetDataSource") >= 2

(* ----------------------------------------------------------------- C6 ---- *)
\* the calls so far are a beginning of
\* ListDataSources, ListIngestionJobs, DeleteDataSource, GetDataSource...,
\* DeleteKnowledgeBase, GetKnowledgeBase...
ScenarioACalls ==
  /\ Len(calls) >= 2
  /\ calls[1] = Call("ListDataSources", event.knowledgeBaseId, FALSE)
  /\ calls[2] = Call("ListIngestionJobs", UniqueMatchId, TRUE)
  /\ Len(calls) >= 3 => calls[3] = Call("DeleteDataSource", UniqueMatchId, FALSE)
  /\ \A i \in 4..Len(calls) :
       \/ /\ calls[i].op = "GetDataSource"
          /\ calls[i].id = UniqueMatchId
          /\ calls[i - 1].op \in {"DeleteDataSource", "GetDataSource"}
          /\ ~calls[i - 1].done
       \/ /\ calls[i].op = "DeleteKnowledgeBase"
          /\ calls[i].id = event.knowledgeBaseId
          /\ calls[i - 1] = Call("GetDataSource", UniqueMatchId, TRUE)
       \/ /\ calls[i].op = "GetKnowledgeBase"
          /\ calls[i].id = event.knowledgeBaseId
          /\ calls[i - 1].op \in {"DeleteKnowledgeBase", "GetKnowledgeBase"}
          /\ ~calls[i - 1].done

\* C6 (scenario A): with exactly one match and a first ListIngestionJobs call
\* answered without an IN_PROGRESS job, the calls are, in order,
\* ListDataSources, one ListIngestionJobs, DeleteDataSource, GetDataSource
\* until not-found, DeleteKnowledgeBase, GetKnowledgeBase until not-found;
\* the job wait never sleeps; completion is reported exactly when
\* GetKnowledgeBase has answered not-found.
C6_ScenarioA ==
  (Cardinality(MatchIndexes) = 1 /\ firstJobs = "idle") =>
    /\ ScenarioACalls
    /\ CountOf("ListIngestionJobs") = 1
    /\ sleeps[WaitJobs] = 0
    /\ Issued("DeleteKnowledgeBase") <=> "GetDataSource" \in goneSeen
                                          /\ pc # "deleteKnowledgeBase"
    /\ Completed <=> "GetKnowledgeBase" \in goneSeen
    /\ Completed =>
         /\ calls[Len(calls)] = Call("GetKnowledgeBase", event.knowledgeBaseId, TRUE)
         /\ RespNotFound(lastResp)

\* scenario A ran to completion, each confirmation taking more than one poll
C6_Witness ==
  /\ Cardinality(MatchIndexes) = 1 /\ firstJobs = "idle"
  /\ Completed
  /\ CountOf("GetDataSource") >= 2

(* ----------------------------------------------------------------- C7 ---- *)
\* C7: DeleteDataSource is issued only right after a ListIngestionJobs
\* response without an IN_PROGRESS job; a response with an IN_PROGRESS job
\* keeps the handler in the job wait; when the job wait times out the
\* deadline has been reached, the operation has failed and neither
\* DeleteDataSource nor DeleteKnowledgeBase has been issued.
C7_DeleteChildOnlyWhenIdle ==
  /\ pc = "deleteDataSource" =>
       /\ LastCallIs("ListIngestionJobs")
       /\ lastResp.kind = "ok" /\ ~hasActiveJobs(lastResp)
  /\ \A k \in CallIndexes("DeleteDataSource") :
       calls[k - 1].op = "ListIngestionJobs"
  /\ (LastCallIs("ListIngestionJobs") /\ lastResp.kind = "ok"
        /\ hasActiveJobs(lastResp)) =>
       /\ description = WaitJobs
       /\ \/ pc \in {"sleep", "waitUntil"}
          \/ pc = "returned" /\ caught = ErrTimeout(WaitJobs)
  /\ (pc = "waitUntil" /\ description = WaitJobs /\ clock < deadlineMs) =>
       ENABLED WaitUntilAttempt
  /\ caught = ErrTimeout(WaitJobs) =>
       /\ Failed
       /\ clock >= deadlineMs
       /\ ~Issued("DeleteDataSource")
       /\ ~Issued("DeleteKnowledgeBase")

\* the job wait timed out on a job that stayed IN_PROGRESS
C7_Witness ==
  /\ caught = ErrTimeout(WaitJobs)
  /\ jobsActive >= 2
  /\ jobsRejected = 0

(* ----------------------------------------------------------------- C8 ---- *)
\* C8 (scenario B): when the polls of the job wait are all answered and n of
\* them show the job IN_PROGRESS, the job wait goes round its loop exactly n
\* times (n sleeps, n + 1 ListIngestionJobs calls) before DeleteDataSource;
\* for the job that is seen IN_PROGRESS by two polls, exactly twice.
C8_ScenarioB ==
  (jobsRejected = 0 /\ (pc = "deleteDataSource" \/ Issued("DeleteDataSource"))) =>
    /\ sleeps[WaitJobs] = jobsActive
    /\ CountOf("ListIngestionJobs") = jobsActive + 1
    /\ jobsActive = 2 =>
         sleeps[WaitJobs] = 2 /\ CountOf("ListIngestionJobs") = 3

C8_Witness ==
  /\ jobsRejected = 0
  /\ jobsActive = 2
  /\ Issued("DeleteDataSource")
  /\ sleeps[WaitJobs] = 2

(* ----------------------------------------------------------------- C9 ---- *)
\* C9 (scenario C): when the invocation ends in the knowledge base
\* confirmation without GetKnowledgeBase ever having answered not-found, it
\* ended with the timeout error of that wait, at or after the deadline, after
\* exactly one DeleteKnowledgeBase; completion is not reported and the caller
\* receives {ok: true}.
C9_ScenarioC ==
  (pc \in {"returned", "thrown"} /\ description = WaitKnowledgeBase
     /\ "GetKnowledgeBase" \notin goneSeen) =>
    /\ caught = ErrTimeout(WaitKnowledgeBase)
    /\ clock >= deadlineMs
    /\ CountOf("DeleteKnowledgeBase") = 1
    /\ ~Completed
    /\ result = ReturnedOk

\* the knowledge base was still there after several polls when time ran out
C9_Witness ==
  /\ caught = ErrTimeout(WaitKnowledgeBase)
  /\ CountOf("GetKnowledgeBase") >= 2
  /\ result = ReturnedOk

GetOps == {"GetDataSource", "GetKnowledgeBase"}
WaitOf(op) == IF op = "GetDataSource" THEN WaitDataSource ELSE WaitKnowledgeBase

\* C11: a confirmation is left successfully only right after its get was
\* answered not-found; a get that succeeds, or fails with any other error,
\* keeps the handler polling in the same confirmation; the only failure an
\* invocation can end with once a get has been issued, short of a rejected
\* DeleteKnowledgeBase, is the timeout of that confirmation, at or after the
\* deadline.
C11_ConfirmOnlyOnNotFound ==
  /\ \A i \in 1..Len(calls) :
       (calls[i].op \in GetOps /\ calls[i].done) =>
         /\ i = Len(calls) \/ calls[i + 1].op \notin {calls[i].op, "DeleteDataSource"}
         /\ i = Len(calls) => RespNotFound(lastResp)
  /\ \A i \in 1..Len(calls) :
       (calls[i].op \in GetOps /\ ~calls[i].done) =>
         \/ i < Len(calls) /\ calls[i + 1].op = calls[i].op
         \/ /\ i = Len(calls)
            /\ description = WaitOf(calls[i].op)
            /\ \/ pc \in {"sleep", "waitUntil"}
               \/ Failed /\ caught = ErrTimeout(description) /\ clock >= deadlineMs
  /\ (LastCallIs("GetDataSource") \/ LastCallIs("GetKnowledgeBase")) =>
       (calls[Len(calls)].done <=> RespNotFound(lastResp))
  /\ (Failed /\ (LastCallIs("GetDataSource") \/ LastCallIs("GetKnowledgeBase"))) =>
       caught = ErrTimeout(description) /\ clock >= deadlineMs

\* a get was rejected with a throttling error on its second round and the
\* confirmation goes on polling
C11_Witness ==
  /\ LastCallIs("GetKnowledgeBase")
  /\ lastResp = ErrThrottling
  /\ CountOf("GetKnowledgeBase") >= 2
  /\ pc = "sleep"
  /\ "GetDataSource" \in goneSeen

(* ---------------------------------------------------------------- C12 ---- *)
RespOtherError(resp) == resp.kind = "error" /\ ~isNotFoundError(resp)
PropagatedLast == pc = "returned" /\ caught = lastResp /\ result = ReturnedOk

\* C12 as stated: a ListDataSources, ListIngestionJobs, DeleteDataSource or
\* DeleteKnowledgeBase call rejected with an error other than not-found ends
\* the sequence at once with that error.
C12_OtherErrorsPropagate ==
  (Len(calls) > 0
     /\ calls[Len(calls)].op \in {"ListDataSources", "ListIngestionJobs",
                                   "DeleteDataSource", "DeleteKnowledgeBase"}
     /\ RespOtherError(lastResp)) => PropagatedLast

\* C12 (amended): a ListDataSources, DeleteDataSource or DeleteKnowledgeBase
\* call rejected with an error other than not-found ends the sequence at
\* once with that error: the call is issued once and nothing is issued after
\* it. A rejected ListIngestionJobs call, whatever the error, is not
\* propagated: the job wait sleeps and polls again, and fails only with its
\* timeout. A remote error an invocation fails with is always the answer to
\* its last call, one of those three.
C12_OtherErrorsPropagateExceptJobs ==
  /\ \A op \in {"ListDataSources", "DeleteDataSource", "DeleteKnowledgeBase"} :
       (LastCallIs(op) /\ RespOtherError(lastResp)) =>
         PropagatedLast /\ CountOf(op) = 1
  /\ (LastCallIs("ListIngestionJobs") /\ lastResp.kind = "error") =>
       /\ description = WaitJobs
       /\ caught # lastResp
       /\ \/ pc \in {"sleep", "waitUntil"}
          \/ Failed /\ caught = ErrTimeout(WaitJobs)
  /\ caught.kind = "error" =>
       /\ PropagatedLast
       /\ RespOtherError(caught)
       /\ calls[Len(calls)].op \in
            {"ListDataSources", "DeleteDataSource", "DeleteKnowledgeBase"}

\* a rejected job listing was polled again, and the throttled
\* DeleteDataSource that followed ended the sequence
C12_Witness ==
  /\ jobsRejected >= 1
  /\ LastCallIs("DeleteDataSource")
  /\ lastResp = ErrThrottling
  /\ Failed /\ caught = ErrThrottling

(* ---------------------------------------------------------------- C13 ---- *)
\* C13 as stated: no sleep of a wait ends after the deadline, and a wait
\* raises its timeout error only with the clock at or past the deadline.
C13_NeverSleepsPastDeadline ==
  /\ pc = "sleep" => clock + delayMs <= deadlineMs
  /\ caught.kind = "timeout" => clock >= deadlineMs

(* ---------------------------------------------------------------- C14 ---- *)
\* the time at context creation plus maxMinutes, 15 when the event has none
ExpectedDeadlineMs ==
  StartMs + (IF event.maxMinutes = UndefinedNumber
             THEN 15 * 60000
             ELSE (event.maxMinutes[1] * 60000) \div event.maxMinutes[2])

\* C14: from the moment the handler has validated its event, deadlineMs is
\* the time of entry plus maxMinutes (15 minutes by default) and keeps that
\* value to the end; each of the three waits polls exactly while the clock is
\* before that value and raises its timeout exactly when it is not.
C14_SingleSharedDeadline ==
  /\ pc \notin {"handler", "thrown"} => deadlineMs = ExpectedDeadlineMs
  /\ pc = "waitUntil" =>
       /\ description \in Waits
       /\ ENABLED WaitUntilAttempt <=> clock < ExpectedDeadlineMs
       /\ ENABLED WaitUntilTimeout <=> clock >= ExpectedDeadlineMs
  /\ \A w \in Waits : caught = ErrTimeout(w) => clock >= ExpectedDeadlineMs

\* with the default of 15 minutes, the job wait and the data source
\* confirmation returned in time and the knowledge base confirmation ran
\* into the same deadline
C14_Witness ==
  /\ event.maxMinutes = UndefinedNumber
  /\ deadlineMs = StartMs + 900000
  /\ Issued("ListIngestionJobs")
  /\ "GetDataSource" \in goneSeen
  /\ caught = ErrTimeout(WaitKnowledgeBase)

(* ---------------------------------------------------------------- C15 ---- *)
\* the remote operations the handler has a command for
HandlerOps == {"ListDataSources", "ListIngestionJobs", "DeleteDataSource",
               "GetDataSource", "DeleteKnowledgeBase", "GetKnowledgeBase"}

\* C15: an invocation issues at most one DeleteDataSource and at most one
\* DeleteKnowledgeBase, and every call it issues is a list, a get or a
\* delete: nothing is created.
C15_AtMostOneDeleteEach ==
  /\ CountOf("DeleteDataSource") <= 1
  /\ CountOf("DeleteKnowledgeBase") <= 1
  /\ \A i \in 1..Len(calls) : calls[i].op \in HandlerOps

\* both deletes were issued once although both confirmations and the job
\* wait took several polls
C15_Witness ==
  /\ CountOf("DeleteDataSource") = 1
  /\ CountOf("DeleteKnowledgeBase") = 1
  /\ CountOf("ListIngestionJobs") >= 2
  /\ CountOf("GetDataSource") >= 2
  /\ CountOf("GetKnowledgeBase") >= 2

(* ---------------------------------------------------------------- C16 ---- *)
\* the calls of an invocation that finds everything gone
GoneCalls ==
  <<Call("ListDataSources", event.knowledgeBaseId, FALSE),
    Call("DeleteKnowledgeBase", event.knowledgeBaseId, FALSE),
    Call("GetKnowledgeBase", event.knowledgeBaseId, TRUE)>>

\* the invocation runs against a finished teardown: it has a knowledgeBaseId
\* and every remote call it has issued was answered not-found
AfterTeardown == Truthy(event.knowledgeBaseId) /\ onlyNotFound

Invocations == {Locals(RunningId), other}

\* when each invocation was entered
EnteredAt(id) == IF id = 1 THEN StartMs ELSE StartMs + RetryDelayMs

\* how far the deletion of a resource has got
Progress(status) ==
  CASE status = "present" -> 0
    [] status = "deleting" -> 1
    [] status = "gone" -> 2

LastOp(l) == IF Len(l.calls) = 0 THEN "none" ELSE l.calls[Len(l.calls)].op

\* what holds of each of the two invocations at every moment: it has not
\* thrown; once returned it has returned {ok: true}; its deadline is its own
\* time of entry plus its budget; a delete of it that was answered not-found
\* has taken it into the confirmation of that delete and is not what it
\* failed with; it has issued list, get and delete calls only
C17_EachInvocation ==
  \A l \in Invocations :
    /\ l.pc # "thrown"
    /\ l.pc = "returned" => l.result = ReturnedOk
    /\ l.pc # "handler" =>
         l.deadlineMs = EnteredAt(l.id)
                          + (l.event.maxMinutes[1] * 60000) \div l.event.maxMinutes[2]
    /\ (LastOp(l) \in {"DeleteDataSource", "DeleteKnowledgeBase"}
          /\ RespNotFound(l.lastResp)) =>
         /\ l.description = (IF LastOp(l) = "DeleteDataSource"
                             THEN WaitDataSource ELSE WaitKnowledgeBase)
         /\ l.pc = "waitUntil" \/ l.caught = ErrTimeout(l.description)
    /\ l.caught.kind = "error" => ~isNotFoundError(l.caught)
    /\ \A i \in 1..Len(l.calls) : l.calls[i].op \in HandlerOps

\* what holds of every step: the step of one invocation leaves the locals of
\* the other alone; no resource goes back from gone or being deleted to
\* present; a delete answered not-found changes nothing at the service
C17_EachStep ==
  /\ other'.id = other.id => other' = other
  /\ Progress(remote'.kb) >= Progress(remote.kb)
  /\ Progress(remote'.ds) >= Progress(remote.ds)
  /\ (other'.id = other.id /\ calls' # calls
        /\ LastOp(Locals(RunningId))' \in {"DeleteDataSource", "DeleteKnowledgeBase"}
        /\ RespNotFound(lastResp')) => remote' = remote

BothReturnedOk ==
  \A l \in Invocations : l.pc = "returned" /\ l.result = ReturnedOk

\* C17: two invocations racing on the same knowledge base, however their
\* steps and the service's interleave: each keeps to its own locals and its
\* own deadline, a delete of a resource the other has already deleted is
\* tolerated and changes nothing, nothing is created again, and both end by
\* returning {ok: true}.
C17_RacingInvocationsSafe ==
  /\ []C17_EachInvocation
  /\ [][C17_EachStep]_vars
  /\ <>[]BothReturnedOk

\* one invocation deleted the knowledge base, the other then had its own
\* delete of it answered not-found and went on to confirm
C17_Witness ==
  /\ other.id # 0
  /\ LastCallIs("DeleteKnowledgeBase")
  /\ RespNotFound(lastResp)
  /\ pc = "waitUntil"
  /\ \E i \in 1..Len(other.calls) : other.calls[i].op = "DeleteKnowledgeBase"
  /\ remote.kb = "gone"

(* ------------------------------------------- C18: creation and deletion order -- *)
CreationOrder ==
  <<"vectorsBucket", "vectorsIndex", "knowledgeBase", "dataSource", "finalizer">>

Reverse(s) == [i \in 1..Len(s) |-> s[Len(s) + 1 - i]]

IsPrefix(a, b) == Len(a) <= Len(b) /\ \A i \in 1..Len(a) : a[i] = b[i]

\* the resources of the steps of one kind, in the order the steps were taken
StepsTaken(step) ==
  LET OfKind(e) == e.step = step
      taken == SelectSeq(stack.log, OfKind)
  IN  [i \in 1..Len(taken) |-> taken[i].resource]

\* C18: the resources are created in the order vector bucket, vector index,
\* knowledge base, data source, finalizer and deleted in the reverse of it;
\* the finalizer depends directly on the four others, and when the stack
\* deletes one of them the finalizer's cleanup invocation has run and ended.
C18_DependencyOrder ==
  /\ IsPrefix(StepsTaken("create"), CreationOrder)
  /\ IsPrefix(StepsTaken("delete"), Reverse(CreationOrder))
  /\ DependenciesOf("finalizer") = Resources \ {"finalizer"}
  /\ \A i \in 1..Len(stack.log) :
       stack.log[i].step = "delete" /\ stack.log[i].resource # "finalizer" =>
         /\ "finalizer" \in stack.deleted
         /\ event = FinalizerEvent
         /\ pc \in {"returned", "thrown"}

\* the stack was created and deleted, step by step, and the cleanup deleted
\* the knowledge base
C18_Witness ==
  /\ stack.phase = "DELETE_COMPLETE"
  /\ StepsTaken("create") = CreationOrder
  /\ StepsTaken("delete") = Reverse(CreationOrder)
  /\ Issued("DeleteKnowledgeBase")

(* ------------------------------------------------ C19: teardown at the service -- *)
\* C19: during teardown deleteIndex is never issued while the knowledge base
\* still exists and deleteVectorBucket is never issued while the index still
\* exists, whatever the finalizer and the delete steps came to.
C19_TeardownReverseAtService ==
  \A i \in 1..Len(stack.log) :
    LET e == stack.log[i]
    IN  /\ e.step = "delete" /\ e.resource = "vectorsIndex" =>
             e.before.kb = "gone"
        /\ e.step = "delete" /\ e.resource = "vectorsBucket" =>
             e.before.index = "gone"

(* ---------------------------------------------------- C20: idempotent creation -- *)
\* C20: a create of the vector bucket, the vector index or the knowledge base
\* that is answered with a conflict, the resource being there already, counts
\* as done and the plan goes on.
C20_CreateConflictIsSuccess ==
  \A i \in 1..Len(stack.log) :
    LET e == stack.log[i]
    IN  /\ e.step = "create"
        /\ e.resource \in {"vectorsBucket", "vectorsIndex", "knowledgeBase"}
        /\ e.answer = ErrConflict
        => e.done /\ stack.phase # "CREATE_FAILED"

(* ------------------------------------------- C21: the creation-time invocation -- *)
\* C21: the invocation the finalizer makes at creation, with the payload
\* {noop: true}, issues no remote call and ends at the validation; remote
\* calls are issued only by the invocation made at teardown, which carries
\* the knowledgeBaseId.
C21_NoopInvocationCallsNothing ==
  /\ event = NoopEvent => calls = <<>> /\ pc \in {"idle", "handler", "thrown"}
  /\ calls # <<>> =>
       /\ event = FinalizerEvent
       /\ stack.invoked
       /\ stack.phase \in {"DELETE_IN_PROGRESS", "DELETE_FAILED", "DELETE_COMPLETE"}

\* the finalizer has been created and its noop invocation has ended
C21_Witness ==
  /\ "finalizer" \in stack.created
  /\ event = NoopEvent
  /\ result = Thrown(ErrRequired)
  /\ calls = <<>>

(* --------------------------------------- C23: model and dimension validation -- *)
\* the README's table of models and allowed dimensions
ReadmeAllows(embeddingModelArn, vectorDimension) ==
  CASE includes(embeddingModelArn, StrTitanV2) -> vectorDimension \in {256, 512, 1024}
    [] ~includes(embeddingModelArn, StrTitanV2)
         /\ includes(embeddingModelArn, StrTitanV1) -> vectorDimension = 1536
    [] OTHER -> vectorDimension \in {256, 512, 1024, 1536}

\* C23: the constructor accepts exactly the combinations of embedding model
\* and vector dimension the README's table allows, and a combination it
\* rejects leaves no resource defined.
C23_ValidationMatchesReadme ==
  /\ stack.phase = "CONSTRUCTED" =>
       ReadmeAllows(stack.embeddingModelArn, vectorDimensionOf(stack.vectorDimension))
  /\ stack.phase = "THROWN" =>
       /\ ~ReadmeAllows(stack.embeddingModelArn,
                        vectorDimensionOf(stack.vectorDimension))
       /\ stack.resources = {}

(* ----------------------------------------------- C24: the failure outcome ---- *)
\* the failure is the timeout of a wait, raised at or after the deadline
FailedByTimeout ==
  /\ caught.kind = "timeout"
  /\ caught.description = description
  /\ description \in Waits
  /\ clock >= deadlineMs

\* the failure is the rejection of the latest call, a list of data sources or
\* a delete, with an error that is not a not-found
FailedByRemoteError ==
  /\ caught.kind = "error"
  /\ ~isNotFoundError(caught)
  /\ caught = lastResp
  /\ \/ LastCallIs("ListDataSources")
     \/ LastCallIs("DeleteDataSource")
     \/ LastCallIs("DeleteKnowledgeBase")

FailureLogged ==
  caught # NoError =>
    /\ FailedByTimeout \/ FailedByRemoteError
    /\ pc = "returned"
    /\ result = ReturnedOk

\* C24: the logged failure comes only from the timeout of a wait or from a
\* remote error that is not tolerated, and it is final: the invocation has
\* ended, and from then on no remote call is issued and the logged error
\* stays.
C24_FailureAbsorbing ==
  /\ []FailureLogged
  /\ [][caught # NoError => UNCHANGED <<calls, caught, result, pc>>]_vars

\* the wait for the data source's deletion timed out: the data source was
\* deleted, the knowledge base never was
C24_Witness ==
  /\ Failed
  /\ caught = ErrTimeout(WaitDataSource)
  /\ LastCallIs("GetDataSource")
  /\ Issued("DeleteDataSource")
  /\ ~Issued("DeleteKnowledgeBase")

(* -------------------------------------------------------- C25: termination -- *)
\* C25 as stated: every invocation comes to its completion or its failure
\* outcome and returns.
C25_EveryInvocationReturns == <>(pc = "returned")

\* C25: every invocation ends, returning after its completion or its failure
\* or rejecting the event at the validation, and every sleep of a wait is
\* strictly positive.
C25_EveryInvocationEnds ==
  /\ [](pc = "sleep" => delayMs > 0)
  /\ <>(pc \in {"returned", "thrown"})

\* an invocation that slept in each of its three waits and ended with the
\* timeout of the last
C25_Witness ==
  /\ Failed
  /\ caught = ErrTimeout(WaitKnowledgeBase)
  /\ \A w \in Waits : sleeps[w] >= 1

(* ------------------------------------------------------ C26: backoff bound -- *)
\* the interval before jitter: 1000 * 2^n, at most 10000
Unjittered(n) == Min(10000, 1000 * (2 ^ n))

\* C26: the sleep chosen after failed attempt n >= 1 lies between
\* floor(c / 2) and c for c = min(10000, 1000 * 2^n), which doubles with n
\* until it is the ceiling; no sleep is longer than 10000 ms or shorter than
\* 1000 ms.
C26_BackoffBound ==
  pc = "sleep" =>
    /\ attempt >= 1
    /\ Unjittered(attempt) \div 2 <= delayMs
    /\ delayMs <= Unjittered(attempt)
    /\ Unjittered(attempt + 1) = Min(10000, 2 * Unjittered(attempt))
    /\ delayMs >= 1000
    /\ delayMs <= 10000

\* a sleep under the ceiling, drawn with jitter above the ceiling's half
C26_Witness ==
  /\ pc = "sleep"
  /\ attempt >= 4
  /\ delayMs > 8000

(* ------------------------------------- C27: the handler and the Lambda timeout -- *)
\* when the Lambda runtime ends the finalizer's invocation
LambdaTimeoutAt == stack.invokedAt + LambdaTimeoutMinutes * MsPerMinute

\* C27: with the deployed configuration the finalizer's invocation returns
\* before the Lambda runtime's timeout, also when the cleanup is stuck and
\* ends with the timeout of a wait.
C27_ReturnsBeforeLambdaTimeout ==
  stack.invoked /\ event = FinalizerEvent /\ pc = "returned" =>
    clock < LambdaTimeoutAt

(* ------------------------------------------------------ C28: pollSeconds ---- *)
\* what an invocation has done and where it stands, its event left out
Observed(l) == [l EXCEPT !.id = 0, !.event = 0]

====
